---- MODULE Spec2Model ----
(***************************************************************************)
(* Model of scripts/dev/analyze_architecture.py: the run of main() from    *)
(* the output of `go list` to the process exit status.                     *)
(*                                                                         *)
(* Text is modelled as a sequence of atoms (short strings that stand for   *)
(* a run of characters).  The atoms are chosen so that no atom is a prefix *)
(* of another and every pattern the program searches for is a sequence of  *)
(* whole atoms; substring search, startswith, split and strip then work on *)
(* atom sequences exactly as the Python operations work on the characters. *)
(***************************************************************************)
EXTENDS Integers, Sequences, FiniteSets, TLC

\* Longest `go list` output considered, in lines.
MaxLines == 3

----------------------------------------------------------------------------
\* Generic text helpers (Python str operations on atom sequences)

Proj == "github.com/yairfalse/vaino"

Range(s) == { s[i] : i \in 1..Len(s) }

\* s[i:i+len(pat)] == pat
MatchAt(pat, s, i) ==
    /\ i + Len(pat) - 1 <= Len(s)
    /\ \A k \in 1..Len(pat) : s[i + k - 1] = pat[k]

\* Python: pat in s
Contains(pat, s) == \E i \in 1..(Len(s) + 1) : MatchAt(pat, s, i)

\* Python: s.startswith(pat)
StartsWith(s, pat) == MatchAt(pat, s, 1)

\* Python: s.find(pat) as a 1-based index, 0 when absent
Find(pat, s) ==
    IF Contains(pat, s)
    THEN CHOOSE i \in 1..(Len(s) + 1) :
            /\ MatchAt(pat, s, i)
            /\ \A j \in 1..(i - 1) : ~MatchAt(pat, s, j)
    ELSE 0

IsSpace(a) == a = " "

\* Python: s.strip(chars) with the characters given as a set of atoms
RECURSIVE LStripSet(_, _)
LStripSet(s, chars) ==
    IF s # << >> /\ Head(s) \in chars THEN LStripSet(Tail(s), chars) ELSE s

RECURSIVE RStripSet(_, _)
RStripSet(s, chars) ==
    IF s # << >> /\ s[Len(s)] \in chars
    THEN RStripSet(SubSeq(s, 1, Len(s) - 1), chars)
    ELSE s

StripSet(s, chars) == RStripSet(LStripSet(s, chars), chars)

\* Python: s.strip()
Strip(s) == StripSet(s, {" "})

\* Python: s.split() (runs of whitespace separate the words, none is empty)
RECURSIVE SplitWords(_, _, _)
SplitWords(s, cur, acc) ==
    IF s = << >>
    THEN IF cur = << >> THEN acc ELSE Append(acc, cur)
    ELSE IF IsSpace(Head(s))
         THEN SplitWords(Tail(s), << >>,
                         IF cur = << >> THEN acc ELSE Append(acc, cur))
         ELSE SplitWords(Tail(s), Append(cur, Head(s)), acc)

Split(s) == SplitWords(s, << >>, << >>)

\* Python: s.split(sep, 1)
SplitOnce(s, sep) ==
    LET i == Find(sep, s) IN
    IF i = 0 THEN << s >>
    ELSE << SubSeq(s, 1, i - 1), SubSeq(s, i + Len(sep), Len(s)) >>

----------------------------------------------------------------------------
\* HIERARCHY, in the insertion order of the dict literal

HIERARCHY ==
    << [prefix |-> <<"cmd", "/">>,                        level |-> 1],
       [prefix |-> <<"internal", "/", "commands", "/">>,  level |-> 2],
       [prefix |-> <<"internal", "/", "watchers", "/">>,  level |-> 2],
       [prefix |-> <<"internal", "/", "workers", "/">>,   level |-> 2],
       [prefix |-> <<"internal", "/", "collectors", "/">>, level |-> 3],
       [prefix |-> <<"internal", "/", "storage", "/">>,   level |-> 3],
       [prefix |-> <<"internal", "/", "analysis", "/">>,  level |-> 3],
       [prefix |-> <<"internal", "/", "analyzer", "/">>,  level |-> 3],
       [prefix |-> <<"internal", "/", "differ", "/">>,    level |-> 3],
       [prefix |-> <<"internal", "/", "scanner", "/">>,   level |-> 3],
       [prefix |-> <<"internal", "/", "output", "/">>,    level |-> 3],
       [prefix |-> <<"internal", "/", "cache", "/">>,     level |-> 3],
       [prefix |-> <<"internal", "/", "discovery", "/">>, level |-> 3],
       [prefix |-> <<"internal", "/", "catchup", "/">>,   level |-> 3],
       [prefix |-> <<"internal", "/", "visualization", "/">>, level |-> 3],
       [prefix |-> <<"internal", "/", "app", "/">>,       level |-> 3],
       [prefix |-> <<"internal", "/", "config", "/">>,    level |-> 4],
       [prefix |-> <<"internal", "/", "errors", "/">>,    level |-> 4],
       [prefix |-> <<"internal", "/", "utils", "/">>,     level |-> 4],
       [prefix |-> <<"internal", "/", "helpers", "/">>,   level |-> 4],
       [prefix |-> <<"internal", "/", "logger", "/">>,    level |-> 4],
       [prefix |-> <<"internal", "/", "ai", "/">>,        level |-> 4],
       [prefix |-> <<"pkg", "/", "types", "/">>,          level |-> 5],
       [prefix |-> <<"pkg", "/", "config", "/">>,         level |-> 5],
       [prefix |-> <<"pkg", "/", "collectors", "/">>,     level |-> 5] >>

\* The value (None, None) of get_package_level
Unclassified == [classified |-> FALSE, level |-> 0, prefix |-> << >>]

Classified(i) ==
    [classified |-> TRUE, level |-> HIERARCHY[i].level,
     prefix |-> HIERARCHY[i].prefix]

\* `for prefix, level in HIERARCHY.items()` from item i on
RECURSIVE ScanHierarchy(_, _)
ScanHierarchy(package_path, i) ==
    IF i > Len(HIERARCHY) THEN Unclassified
    ELSE IF Contains(HIERARCHY[i].prefix, package_path) THEN Classified(i)
    ELSE ScanHierarchy(package_path, i + 1)

\* The same loop without its early return: a later match replaces an earlier one
RECURSIVE ScanHierarchyKeepLast(_, _, _)
ScanHierarchyKeepLast(package_path, i, found) ==
    IF i > Len(HIERARCHY) THEN found
    ELSE ScanHierarchyKeepLast(package_path, i + 1,
             IF Contains(HIERARCHY[i].prefix, package_path)
             THEN Classified(i) ELSE found)

\* A wrong classifier: the last matching rule wins
get_package_level_LastMatch(package_path) ==
    ScanHierarchyKeepLast(package_path, 1, Unclassified)

get_package_level(package_path) == ScanHierarchy(package_path, 1)

----------------------------------------------------------------------------
\* The `go list` outputs the model runs on

Colon == ":"
Sp    == " "

M_cmd     == <<Proj, "/", "cmd", "/", "vaino">>
M_storage == <<Proj, "/", "internal", "/", "storage", "/", "db">>
M_cache   == <<Proj, "/", "internal", "/", "cache", "/", "lru">>
M_config  == <<Proj, "/", "internal", "/", "config">>
M_types   == <<Proj, "/", "pkg", "/", "types">>
M_tool    == <<Proj, "/", "pkg", "/", "cmd", "/", "tool">>
M_run     == <<Proj, "/", "internal", "/", "commands", "/", "cmd", "/", "run">>
M_aws     == <<Proj, "/", "pkg", "/", "collectors", "/", "aws">>
M_fmt     == <<"fmt">>

\* One line of `go list -f '{{.ImportPath}}: {{.Imports}}'`
Line1(pkg, a)    == pkg \o <<Colon, Sp, "[">> \o a \o <<"]">>
Line2(pkg, a, b) == pkg \o <<Colon, Sp, "[">> \o a \o <<Sp>> \o b \o <<"]">>

Lines ==
    { Line1(M_cmd, M_storage),
      Line1(M_storage, M_config),
      Line2(M_storage, M_cmd, M_config),
      Line2(M_config, M_cmd, M_fmt),
      Line1(M_config, M_types),
      Line1(M_types, M_config),
      Line2(M_tool, M_run, M_storage),
      Line2(M_aws, M_storage, M_cmd),
      Line2(M_cache, M_run, M_cmd),
      Line1(<< >>, M_cmd),                          \* empty import path
      M_storage \o <<Colon, "[">> \o M_cmd \o <<"]">>, \* ':' but no ': '
      <<Sp, Sp>>,                                   \* blank
      <<"go", Colon, Sp, "warning">> }             \* no import of the project

RECURSIVE SeqsUpTo(_, _)
SeqsUpTo(S, n) ==
    IF n = 0 THEN { << >> }
    ELSE LET shorter == SeqsUpTo(S, n - 1) IN
         shorter \cup { Append(s, x) : s \in shorter, x \in S }

Outputs == SeqsUpTo(Lines, MaxLines)

\* How subprocess.run ended
RunOutcomes == { "ok", "nonzero", "exception" }

----------------------------------------------------------------------------
\* A dict, kept as the sequence of its items in insertion order

Keys(d) == { d[i].key : i \in 1..Len(d) }

Get(d, k) == (CHOOSE i \in 1..Len(d) : d[i].key = k)

\* d[k] = v
DictSet(d, k, v) ==
    IF k \in Keys(d)
    THEN [ i \in 1..Len(d) |-> IF d[i].key = k THEN [key |-> k, value |-> v]
                                               ELSE d[i] ]
    ELSE Append(d, [key |-> k, value |-> v])

Value(d, k) == d[Get(d, k)].value

----------------------------------------------------------------------------
\* extract_imports

IsInternalImport(imp) == Contains(<<Proj>>, imp)

\* The loop body for one line: the dict after the line
ExtractLine(imports, line) ==
    IF Strip(line) = << >> \/ ~Contains(<<Colon>>, line)
    THEN imports
    ELSE LET parts == SplitOnce(line, <<Colon, Sp>>) IN
         IF Len(parts) # 2
         THEN imports
         ELSE LET package          == Strip(parts[1])
                  import_list      == Split(StripSet(parts[2], {"[", "]"}))
                  internal_imports == SelectSeq(import_list, IsInternalImport)
              IN  IF internal_imports # << >>
                  THEN DictSet(imports, package, internal_imports)
                  ELSE imports

RECURSIVE ExtractLines(_, _)
ExtractLines(imports, lines) ==
    IF lines = << >> THEN imports
    ELSE ExtractLines(ExtractLine(imports, Head(lines)), Tail(lines))

\* A wrong extractor: an entry with an empty import path is refused
extract_imports_RejectEmpty(outcome, lines) ==
    LET imports == IF outcome = "ok" THEN ExtractLines(<< >>, lines) ELSE << >>
    IN  SelectSeq(imports, LAMBDA item : item.key # << >>)

extract_imports(outcome, lines) ==
    IF outcome = "exception" THEN << >>
    ELSE IF outcome = "nonzero" THEN << >>
    ELSE ExtractLines(<< >>, lines)

----------------------------------------------------------------------------
\* analyze_violations

PkgPrefix == <<Proj, "/", "pkg", "/">>

\* f"  {package} imports {imp}"
PkgToInternalText(package, imp) ==
    <<Sp, Sp>> \o package \o <<Sp, "imports", Sp>> \o imp

LevelViolation(package, imp, pkg, impl) ==
    [package |-> package, import |-> imp,
     pkg_level |-> pkg.level, pkg_prefix |-> pkg.prefix,
     imp_level |-> impl.level, imp_prefix |-> impl.prefix,
     violation_type |-> "upward_dependency"]

RECURSIVE PkgToInternalOf(_, _)
PkgToInternalOf(package, import_list) ==
    IF import_list = << >> THEN << >>
    ELSE LET imp == Head(import_list) IN
         (IF Contains(<<"internal", "/">>, imp)
          THEN << PkgToInternalText(package, imp) >> ELSE << >>)
         \o PkgToInternalOf(package, Tail(import_list))

\* A wrong comparison: equal levels count as a violation
IsLevelViolation_Geq(pkg_level, imp_level) == pkg_level >= imp_level

\* The comparison of the two levels that makes an edge a violation
IsLevelViolation(pkg_level, imp_level) == pkg_level > imp_level

RECURSIVE LevelViolationsOf(_, _, _)
LevelViolationsOf(package, pkg, import_list) ==
    IF import_list = << >> THEN << >>
    ELSE LET imp  == Head(import_list)
             impl == get_package_level(imp)
         IN  (IF impl.classified /\ IsLevelViolation(pkg.level, impl.level)
              THEN << LevelViolation(package, imp, pkg, impl) >> ELSE << >>)
             \o LevelViolationsOf(package, pkg, Tail(import_list))

\* A wrong loop body: the pkg/ check sits behind `if pkg_level is None: continue`
AnalyzeItem_TierGate(acc, package, import_list) ==
    LET pkg == get_package_level(package) IN
    IF ~pkg.classified THEN acc
    ELSE [level_violations |->
             acc.level_violations \o LevelViolationsOf(package, pkg, import_list),
          pkg_to_internal |->
             IF StartsWith(package, PkgPrefix)
             THEN acc.pkg_to_internal \o PkgToInternalOf(package, import_list)
             ELSE acc.pkg_to_internal]

\* The body of the loop over imports.items() for one item
AnalyzeItem(acc, package, import_list) ==
    LET pkg == get_package_level(package)
        p2i == IF StartsWith(package, PkgPrefix)
               THEN acc.pkg_to_internal \o PkgToInternalOf(package, import_list)
               ELSE acc.pkg_to_internal
    IN  IF ~pkg.classified
        THEN [level_violations |-> acc.level_violations, pkg_to_internal |-> p2i]
        ELSE [level_violations |->
                 acc.level_violations \o LevelViolationsOf(package, pkg, import_list),
              pkg_to_internal |-> p2i]

RECURSIVE AnalyzeItems(_, _)
AnalyzeItems(acc, items) ==
    IF items = << >> THEN acc
    ELSE AnalyzeItems(AnalyzeItem(acc, Head(items).key, Head(items).value),
                      Tail(items))

analyze_violations(imports) ==
    AnalyzeItems([level_violations |-> << >>, pkg_to_internal |-> << >>], imports)

----------------------------------------------------------------------------
\* find_circular_dependencies: the adjacency list; print_analysis: the sort

\* The effect on the dict of evaluating graph[k]: a missing key is inserted
Touch(graph, k) ==
    IF k \in Keys(graph) THEN graph
    ELSE Append(graph, [key |-> k, value |-> {}])

\* graph[package].add(imp)
GraphAdd(graph, package, imp) ==
    LET g == Touch(graph, package) IN
    DictSet(g, package, Value(g, package) \cup {imp})

RECURSIVE BuildImports(_, _, _, _)
BuildImports(graph, package, import_list, imports) ==
    IF import_list = << >> THEN graph
    ELSE BuildImports(IF Head(import_list) \in Keys(imports)
                      THEN GraphAdd(graph, package, Head(import_list))
                      ELSE graph,
                      package, Tail(import_list), imports)

RECURSIVE BuildItems(_, _, _)
BuildItems(graph, items, imports) ==
    IF items = << >> THEN graph
    ELSE BuildItems(BuildImports(graph, Head(items).key, Head(items).value, imports),
                    Tail(items), imports)

\* The adjacency list as built by the first loop of find_circular_dependencies
BuildGraph(imports) == BuildItems(<< >>, imports, imports)

\* Python: (a1, a2) <= (b1, b2)
KeyLeq(a, b) == a[1] < b[1] \/ (a[1] = b[1] /\ a[2] <= b[2])

\* A wrong key: the level of the import is left out
SortKey_PkgOnly(v) == << v.pkg_level, v.pkg_level >>

\* key=lambda x: (x['pkg_level'], x['imp_level'])
SortKey(v) == << v.pkg_level, v.imp_level >>

\* x put behind the last element whose key is not greater (a stable insertion)
RECURSIVE InsertByKey(_, _)
InsertByKey(sorted, x) ==
    IF sorted # << >> /\ ~KeyLeq(SortKey(sorted[Len(sorted)]), SortKey(x))
    THEN Append(InsertByKey(SubSeq(sorted, 1, Len(sorted) - 1), x),
                sorted[Len(sorted)])
    ELSE Append(sorted, x)

RECURSIVE SortedByKey(_)
SortedByKey(violations) ==
    IF violations = << >> THEN << >>
    ELSE InsertByKey(SortedByKey(SubSeq(violations, 1, Len(violations) - 1)),
                     violations[Len(violations)])

----------------------------------------------------------------------------
\* The run of main()

VARIABLES
    outcome,           \* how subprocess.run ended
    stdout,            \* result.stdout.strip().split('\n')
    pc,                \* where main() is
    imports,           \* main: imports
    level_violations,  \* main: violations
    pkg_to_internal,   \* main: pkg_violations
    graph,             \* find_circular_dependencies: graph
    di_used,           \* size of graph when `for package in graph` started
    outer_i,           \* number of keys the outer loop has taken
    inner_todo,        \* elements of graph[package] the inner loop has not taken
    imported,          \* the inner loop's variable
    stack,             \* the active calls of has_path, innermost last
    ret,               \* value of the has_path call that returned last
    cycles,            \* find_circular_dependencies: cycles
    checked,           \* find_circular_dependencies: checked
    printed,           \* the level violations in the order print_analysis lists them
    error,             \* the exception that left main(), if any
    exit_code          \* the exit status of the process, -1 while it runs

vars == << outcome, stdout, pc, imports, level_violations, pkg_to_internal,
           graph, di_used, outer_i, inner_todo, imported, stack, ret, cycles,
           checked, printed, error, exit_code >>

Running == 0 - 1

\* The output of a run that failed is not read: one line of it is enough
Init ==
    /\ outcome \in RunOutcomes
    /\ stdout \in IF outcome = "ok" THEN Outputs ELSE SeqsUpTo(Lines, 1)
    /\ pc = "start"
    /\ imports = << >>
    /\ level_violations = << >>
    /\ pkg_to_internal = << >>
    /\ graph = << >>
    /\ di_used = 0
    /\ outer_i = 0
    /\ inner_todo = {}
    /\ imported = << >>
    /\ stack = << >>
    /\ ret = "none"
    /\ cycles = << >>
    /\ checked = {}
    /\ printed = << >>
    /\ error = "none"
    /\ exit_code = Running

cycleVars == << graph, di_used, outer_i, inner_todo, imported, stack, ret,
                cycles, checked >>

\* main: imports = extract_imports(); if not imports: return 1
ExtractImports ==
    /\ pc = "start"
    /\ imports' = extract_imports(outcome, stdout)
    /\ IF imports' = << >>
       THEN pc' = "done" /\ exit_code' = 1
       ELSE pc' = "extracted" /\ exit_code' = exit_code
    /\ UNCHANGED << outcome, stdout, level_violations, pkg_to_internal,
                    cycleVars, printed, error >>

\* main: violations, pkg_violations = analyze_violations(imports)
AnalyzeViolations ==
    /\ pc = "extracted"
    /\ LET r == analyze_violations(imports) IN
       /\ level_violations' = r.level_violations
       /\ pkg_to_internal' = r.pkg_to_internal
    /\ pc' = "analyzed"
    /\ UNCHANGED << outcome, stdout, imports, cycleVars, printed, error, exit_code >>

\* find_circular_dependencies: the adjacency list, cycles = [], checked = set(),
\* and the iterator of `for package in graph`
BuildAdjacency ==
    /\ pc = "analyzed"
    /\ graph' = BuildGraph(imports)
    /\ di_used' = Len(graph')
    /\ outer_i' = 0
    /\ cycles' = << >>
    /\ checked' = {}
    /\ pc' = "outer"
    /\ UNCHANGED << outcome, stdout, imports, level_violations, pkg_to_internal,
                    inner_todo, imported, stack, ret, printed, error, exit_code >>

\* The package of the outer loop, and the `end` of every search it starts
package == graph[outer_i].key

\* `package in checked`: checked holds tuples only, and a str equals no tuple
PackageInChecked == FALSE

\* One step of `for package in graph`: a dict iterator raises RuntimeError when
\* the dict has changed size since the iterator was made
OuterNext ==
    /\ pc = "outer"
    /\ IF Len(graph) # di_used
       THEN /\ pc' = "raised"
            /\ error' = "RuntimeError"
            /\ exit_code' = 1
            /\ UNCHANGED << outer_i, inner_todo >>
       ELSE IF outer_i = Len(graph)
       THEN /\ pc' = "cycles_done"
            /\ UNCHANGED << outer_i, inner_todo, error, exit_code >>
       ELSE /\ outer_i' = outer_i + 1
            /\ IF PackageInChecked
               THEN pc' = "outer" /\ inner_todo' = inner_todo
               ELSE pc' = "inner" /\ inner_todo' = graph[outer_i + 1].value
            /\ UNCHANGED << error, exit_code >>
    /\ UNCHANGED << outcome, stdout, imports, level_violations, pkg_to_internal,
                    graph, di_used, imported, stack, ret, cycles, checked, printed >>

\* One step of `for imported in graph[package]`, in any order the set may give:
\* `imported in graph and has_path(imported, package)` up to the call
InnerNext ==
    /\ pc = "inner"
    /\ IF inner_todo = {}
       THEN /\ pc' = "outer"
            /\ UNCHANGED << inner_todo, imported, stack >>
       ELSE \E imp \in inner_todo :
            /\ inner_todo' = inner_todo \ {imp}
            /\ imported' = imp
            /\ IF imp \in Keys(graph)
               THEN /\ stack' = << [start |-> imp, visited |-> {}, todo |-> {},
                                    entered |-> FALSE] >>
                    /\ pc' = "search"
               ELSE /\ stack' = stack
                    /\ pc' = "inner"
    /\ UNCHANGED << outcome, stdout, imports, level_violations, pkg_to_internal,
                    graph, di_used, outer_i, ret, cycles, checked, printed,
                    error, exit_code >>

Top == stack[Len(stack)]
Pop == SubSeq(stack, 1, Len(stack) - 1)

\* graph[start] in has_path: the dict after the lookup, and the set found
Neighbors(g, start) ==
    [graph |-> Touch(g, start), neighbors |-> Value(Touch(g, start), start)]

\* has_path from its entry to the start of its loop
HasPathEnter ==
    /\ pc = "search"
    /\ stack # << >>
    /\ ~Top.entered
    /\ IF Top.start = package
       THEN stack' = Pop /\ ret' = "True" /\ graph' = graph
       ELSE IF Top.start \in Top.visited
       THEN stack' = Pop /\ ret' = "False" /\ graph' = graph
       ELSE LET n == Neighbors(graph, Top.start) IN
            /\ graph' = n.graph
            /\ stack' = Append(Pop, [start |-> Top.start,
                                     visited |-> Top.visited \cup {Top.start},
                                     todo |-> n.neighbors,
                                     entered |-> TRUE])
            /\ ret' = ret
    /\ UNCHANGED << outcome, stdout, pc, imports, level_violations,
                    pkg_to_internal, di_used, outer_i, inner_todo, imported,
                    cycles, checked, printed, error, exit_code >>

\* One step of `for neighbor in graph[start]`: the recursive call with a copy of
\* visited, or `return False` when the set is exhausted
HasPathNext ==
    /\ pc = "search"
    /\ stack # << >>
    /\ Top.entered
    /\ ret = "none"
    /\ IF Top.todo = {}
       THEN stack' = Pop /\ ret' = "False"
       ELSE \E neighbor \in Top.todo :
            /\ stack' = Append(Append(Pop, [Top EXCEPT !.todo = @ \ {neighbor}]),
                               [start |-> neighbor, visited |-> Top.visited,
                                todo |-> {}, entered |-> FALSE])
            /\ ret' = ret
    /\ UNCHANGED << outcome, stdout, pc, imports, level_violations,
                    pkg_to_internal, graph, di_used, outer_i, inner_todo,
                    imported, cycles, checked, printed, error, exit_code >>

\* `if has_path(neighbor, end, visited.copy()): return True`
HasPathResume ==
    /\ pc = "search"
    /\ stack # << >>
    /\ Top.entered
    /\ ret # "none"
    /\ IF ret = "True"
       THEN stack' = Pop /\ ret' = ret
       ELSE stack' = stack /\ ret' = "none"
    /\ UNCHANGED << outcome, stdout, pc, imports, level_violations,
                    pkg_to_internal, graph, di_used, outer_i, inner_todo,
                    imported, cycles, checked, printed, error, exit_code >>

\* A wrong body: only the ordering (package, imported) is tested and marked
RecordPair_OneOrder(cs, chk, p, q) ==
    IF << p, q >> \notin chk
    THEN [cycles |-> Append(cs, << p, q >>), checked |-> chk \cup { << p, q >> }]
    ELSE [cycles |-> cs, checked |-> chk]

\* if (package, imported) not in checked and (imported, package) not in checked:
\*     cycles.append(...); checked.add(...); checked.add(...)
RecordPair(cs, chk, p, q) ==
    IF << p, q >> \notin chk /\ << q, p >> \notin chk
    THEN [cycles |-> Append(cs, << p, q >>),
          checked |-> chk \cup { << p, q >>, << q, p >> }]
    ELSE [cycles |-> cs, checked |-> chk]

\* The outermost has_path has returned: the body of the `if` in the inner loop
RecordCycle ==
    /\ pc = "search"
    /\ stack = << >>
    /\ ret # "none"
    /\ IF ret = "True"
       THEN LET r == RecordPair(cycles, checked, package, imported) IN
            cycles' = r.cycles /\ checked' = r.checked
       ELSE UNCHANGED << cycles, checked >>
    /\ ret' = "none"
    /\ pc' = "inner"
    /\ UNCHANGED << outcome, stdout, imports, level_violations, pkg_to_internal,
                    graph, di_used, outer_i, inner_todo, imported, stack,
                    printed, error, exit_code >>

\* print_analysis: the order in which the level violations are listed
PrintAnalysis ==
    /\ pc = "cycles_done"
    /\ printed' = SortedByKey(level_violations)
    /\ pc' = "printed"
    /\ UNCHANGED << outcome, stdout, imports, level_violations, pkg_to_internal,
                    cycleVars, error, exit_code >>

\* main: return 1 if total_issues > 0 else 0, handed to sys.exit
MainReturn ==
    /\ pc = "printed"
    /\ LET total_issues == Len(level_violations) + Len(pkg_to_internal) + Len(cycles)
       IN  exit_code' = IF total_issues > 0 THEN 1 ELSE 0
    /\ pc' = "done"
    /\ UNCHANGED << outcome, stdout, imports, level_violations, pkg_to_internal,
                    cycleVars, printed, error >>

Next ==
    \/ ExtractImports
    \/ AnalyzeViolations
    \/ BuildAdjacency
    \/ OuterNext
    \/ InnerNext
    \/ HasPathEnter
    \/ HasPathNext
    \/ HasPathResume
    \/ RecordCycle
    \/ PrintAnalysis
    \/ MainReturn

Spec == Init /\ [][Next]_vars

----------------------------------------------------------------------------
\* Vocabulary of the properties

\* The edges (from, to) of an edge map
Edges(imps) ==
    UNION { { << imps[i].key, imps[i].value[j] >> : j \in 1..Len(imps[i].value) }
            : i \in 1..Len(imps) }

\* The same edges in the iteration order of the map
RECURSIVE EdgeSeq(_)
EdgeSeq(imps) ==
    IF imps = << >> THEN << >>
    ELSE [ j \in 1..Len(Head(imps).value) |-> << Head(imps).key, Head(imps).value[j] >> ]
         \o EdgeSeq(Tail(imps))

ModulesOf(imps) == { e[1] : e \in Edges(imps) } \cup { e[2] : e \in Edges(imps) }

\* analyze_violations has just returned
AnalysisDone == pc = "analyzed"

\* find_circular_dependencies has been entered
CyclesStarted ==
    pc \in { "outer", "inner", "search", "cycles_done", "printed", "raised" }
    \/ (pc = "done" /\ imports # << >>)

\* find_circular_dependencies has returned its list
CyclesReturned ==
    pc \in { "cycles_done", "printed" } \/ (pc = "done" /\ imports # << >>)

Tier(p) == get_package_level(p).level
IsClassified(p) == get_package_level(p).classified

\* The two groups of the encapsulation rule
PublicSurface(p) == Len(p) >= 4 /\ SubSeq(p, 1, 4) = <<Proj, "/", "pkg", "/">>
InternalGroup(p) == \E i \in 1..(Len(p) - 1) : p[i] = "internal" /\ p[i + 1] = "/"

\* Successors and reachability in an adjacency list
Succ(g, n) == IF n \in Keys(g) THEN Value(g, n) ELSE {}

RECURSIVE ReachFrom(_, _)
ReachFrom(g, seen) ==
    LET more == seen \cup UNION { Succ(g, n) : n \in seen } IN
    IF more = seen THEN seen ELSE ReachFrom(g, more)

\* q reaches p by a directed path (of any length, zero included)
Reaches(g, q, p) == p \in ReachFrom(g, {q})

\* The unordered pairs {P, Q}: Q a direct successor of P, P reachable from Q
ExpectedPairs(g) ==
    { {p, q} : p \in Keys(g), q \in UNION { Succ(g, n) : n \in Keys(g) } }
    \cap { {e[1], e[2]} : e \in { x \in Keys(g) \X ModulesOf(imports) :
                                   x[2] \in Succ(g, x[1]) /\ Reaches(g, x[2], x[1]) } }

PairSet(cs) == { {cs[i][1], cs[i][2]} : i \in 1..Len(cs) }

\* Python's order of str on the atoms that occur in module paths
AtomOrder ==
    << "/", "aws", "cache", "cmd", "collectors", "commands", "config", "db",
       Proj, "internal", "lru", "pkg", "run", "storage", "tool", "types", "vaino" >>

AtomRank(a) == CHOOSE i \in 1..Len(AtomOrder) : AtomOrder[i] = a

\* Python: a <= b on two module paths
RECURSIVE PathLeq(_, _)
PathLeq(a, b) ==
    IF a = << >> THEN TRUE
    ELSE IF b = << >> THEN FALSE
    ELSE IF Head(a) = Head(b) THEN PathLeq(Tail(a), Tail(b))
    ELSE AtomRank(Head(a)) < AtomRank(Head(b))

LevelsLeq(v, w) ==
    v.pkg_level < w.pkg_level
    \/ (v.pkg_level = w.pkg_level /\ v.imp_level <= w.imp_level)

SameLevels(v, w) == v.pkg_level = w.pkg_level /\ v.imp_level = w.imp_level

----------------------------------------------------------------------------
\* Properties

C2_Encapsulation ==
    AnalysisDone =>
        /\ \A e \in Edges(imports) :
              (PkgToInternalText(e[1], e[2]) \in Range(pkg_to_internal))
              <=> (PublicSurface(e[1]) /\ InternalGroup(e[2]))
        /\ \A t \in Range(pkg_to_internal) :
              \E e \in Edges(imports) :
                    /\ t = PkgToInternalText(e[1], e[2])
                    /\ PublicSurface(e[1])
                    /\ InternalGroup(e[2])

Breach(e) == PkgToInternalText(e[1], e[2]) \in Range(pkg_to_internal)

\* C2 witness: breaches reported for an edge whose source is unclassified, for
\* an edge between equal tiers and for an edge in allowed tier order
C2_Witness ==
    /\ AnalysisDone
    /\ \E e \in Edges(imports) : Breach(e) /\ ~IsClassified(e[1])
    /\ \E e \in Edges(imports) :
          Breach(e) /\ IsClassified(e[1]) /\ IsClassified(e[2]) /\ Tier(e[1]) = Tier(e[2])
    /\ \E e \in Edges(imports) :
          Breach(e) /\ IsClassified(e[1]) /\ IsClassified(e[2]) /\ Tier(e[1]) < Tier(e[2])

\* Indices of the rules whose prefix occurs in the path
MatchingRules(package_path) ==
    { i \in 1..Len(HIERARCHY) : Contains(HIERARCHY[i].prefix, package_path) }

\* The rule of least index among those whose prefix occurs in the path
FirstRule(p) ==
    LET m == MatchingRules(p) IN CHOOSE i \in m : \A j \in m : i <= j

\* C5: get_package_level returns the level and prefix of the first rule, in
\* the order of HIERARCHY, whose prefix occurs in the path, and (None, None)
\* exactly when no prefix occurs in it; a later matching rule never overrides.
C5_FirstMatch ==
    AnalysisDone =>
    /\ \A p \in ModulesOf(imports) :
          LET r == get_package_level(p)
              m == MatchingRules(p)
          IN  /\ r.classified <=> m # {}
              /\ ~r.classified => r = Unclassified
              /\ r.classified =>
                    \E i \in m :
                       /\ \A j \in m : i <= j
                       /\ r.level = HIERARCHY[i].level
                       /\ r.prefix = HIERARCHY[i].prefix
    /\ \A i \in 1..Len(level_violations) :
          LET v == level_violations[i]
              f == FirstRule(v.import)
          IN  /\ v.pkg_prefix = HIERARCHY[FirstRule(v.package)].prefix
              /\ v.imp_prefix = HIERARCHY[f].prefix
              /\ v.imp_level = HIERARCHY[f].level

\* C5 witness: a reported violation whose import matches rules of two
\* different levels and carries the level of the first of them
C5_Witness ==
    /\ AnalysisDone
    /\ \E i \in 1..Len(level_violations) :
          LET v == level_violations[i] IN
          /\ \E j \in MatchingRules(v.import) :
                HIERARCHY[j].level # HIERARCHY[FirstRule(v.import)].level
          /\ v.imp_level = HIERARCHY[FirstRule(v.import)].level

\* The sequence is ascending by (pkg_level, imp_level), ties by package name
SortedWithTieBreak(vs) ==
    \A i \in 1..Len(vs) : \A j \in (i + 1)..Len(vs) :
        /\ LevelsLeq(vs[i], vs[j])
        /\ SameLevels(vs[i], vs[j]) => PathLeq(vs[i].package, vs[j].package)

\* C6 as stated: the violations returned by analyze_violations are sorted by
\* (fromTier, toTier) ascending, ties broken by fromModule in lexicographic order.
C6_ReturnedSorted == AnalysisDone => SortedWithTieBreak(level_violations)

\* The violations of vs that have the levels of v, in the order of vs
WithLevelsOf(vs, v) == SelectSeq(vs, LAMBDA w : SameLevels(w, v))

\* C6 amended: analyze_violations returns the violations in the iteration order
\* of the edge map; print_analysis lists them ascending by (pkg_level,
\* imp_level), and violations of equal levels keep the order they were
\* returned in.
C6_PrintedOrder ==
    /\ AnalysisDone =>
          [ i \in 1..Len(level_violations) |->
               << level_violations[i].package, level_violations[i].import >> ]
          = SelectSeq(EdgeSeq(imports),
                      LAMBDA e : /\ IsClassified(e[1]) /\ IsClassified(e[2])
                                 /\ Tier(e[1]) > Tier(e[2]))
    /\ pc = "printed" =>
          /\ Len(printed) = Len(level_violations)
          /\ \A i \in 1..Len(printed) : \A j \in (i + 1)..Len(printed) :
                LevelsLeq(printed[i], printed[j])
          /\ \A i \in 1..Len(level_violations) :
                WithLevelsOf(printed, level_violations[i])
                = WithLevelsOf(level_violations, level_violations[i])

\* C6 witness: a report whose order differs from the returned order and in
\* which two violations of equal levels are not in the order of their packages
C6_Witness ==
    /\ pc = "printed"
    /\ printed # level_violations
    /\ \E i \in 1..Len(printed) : \E j \in (i + 1)..Len(printed) :
          /\ SameLevels(printed[i], printed[j])
          /\ ~PathLeq(printed[i].package, printed[j].package)

\* A line of the output whose import path is empty and that imports the project
EmptyPathLine(line) ==
    Len(line) >= 2 /\ line[1] = Colon /\ line[2] = Sp /\ Contains(<<Proj>>, line)

EmptyPathInOutput ==
    outcome = "ok" /\ \E i \in 1..Len(stdout) : EmptyPathLine(stdout[i])

\* C8 as stated: when an edge references an empty module path, the run fails
\* with MalformedInputError, no graph is built and no analysis runs.
C8_MalformedInputError ==
    (pc # "start" /\ EmptyPathInOutput) =>
        /\ pc \in { "done", "raised" }
        /\ error = "MalformedInputError"
        /\ imports = << >>
        /\ graph = << >>

\* C8 amended: no error is raised for an empty module path.  An output line
\* whose import path is empty is stored under the empty path like any other
\* package, both analyses run on the map, the empty path becomes a node of the
\* adjacency list when one of its imports is a package of the map, and the
\* only exception the run can end with is the RuntimeError of the dict
\* iterator.
C8_EmptyPathAccepted ==
    /\ error \in { "none", "RuntimeError" }
    /\ pc = "extracted" =>
          \A k \in Keys(imports) :
             \E i \in 1..Len(stdout) :
                /\ Contains(<<Colon, Sp>>, stdout[i])
                /\ k = Strip(SplitOnce(stdout[i], <<Colon, Sp>>)[1])
    /\ (pc # "start" /\ EmptyPathInOutput) =>
          /\ << >> \in Keys(imports)
          /\ (pc = "done" => printed = SortedByKey(level_violations))
          /\ (CyclesStarted /\ Range(Value(imports, << >>)) \cap Keys(imports) # {})
                => << >> \in Keys(graph)

\* C8 witness: a run over an output with an empty import path that went through
\* both analyses to its end, the empty path being a node of the adjacency list
C8_Witness ==
    /\ pc = "done"
    /\ EmptyPathInOutput
    /\ error = "none"
    /\ << >> \in Keys(graph)

\* C4: find_circular_dependencies never lists an unordered pair twice, in either
\* order; for a graph of just A -> B and B -> A it returns exactly one pair.
C4_NoDuplicatePair ==
    /\ \A i \in 1..Len(cycles) : \A j \in (i + 1)..Len(cycles) :
          /\ cycles[i] # cycles[j]
          /\ cycles[i] # << cycles[j][2], cycles[j][1] >>
    /\ CyclesReturned =>
          \A a \in Keys(graph) : \A b \in Keys(graph) :
             (/\ a # b
              /\ Keys(graph) = {a, b}
              /\ Value(graph, a) = {b}
              /\ Value(graph, b) = {a})
             => Len(cycles) = 1

\* C4 witness: the graph of A -> B and B -> A alone, searched to the end, one pair
C4_Witness ==
    /\ pc = "cycles_done"
    /\ Len(cycles) = 1
    /\ \E a \in Keys(graph) : \E b \in Keys(graph) :
          /\ a # b
          /\ Keys(graph) = {a, b}
          /\ Value(graph, a) = {b}
          /\ Value(graph, b) = {a}

\* The adjacency list as the first loop of find_circular_dependencies left it
GraphAsBuilt == BuildGraph(imports)

\* What find_circular_dependencies hands back: nothing when it raised
ReturnedPairs == IF pc = "raised" THEN {} ELSE PairSet(cycles)

\* C3 as stated: for every import graph the pairs returned by
\* find_circular_dependencies are exactly the {P, Q} with Q a direct successor
\* of P and P reachable from Q.
C3_ExactPairs ==
    (CyclesReturned \/ pc = "raised") => ReturnedPairs = ExpectedPairs(GraphAsBuilt)

\* No finding in the edge map: no upward dependency, no breach, no cycle pair
Clean ==
    /\ level_violations = << >>
    /\ pkg_to_internal = << >>
    /\ ExpectedPairs(GraphAsBuilt) = {}

\* C7 as stated: the exit status is 0 when the findings are clean and 1
\* otherwise; on extraction failure it is 1 and neither analysis has run.
C7_ExitStatus ==
    pc \in { "done", "raised" } =>
        IF imports = << >>
        THEN exit_code = 1 /\ graph = << >> /\ level_violations = << >>
        ELSE exit_code = IF Clean THEN 0 ELSE 1

\* C9 as stated: the adjacency list is never changed after its construction,
\* a dead-end module is not added as a node, and the outer iteration over the
\* graph completes normally.
C9_GraphImmutable ==
    CyclesStarted => (graph = GraphAsBuilt /\ error = "none")

\* main() has stopped: it returned, or an exception left it
Stopped == pc \in { "done", "raised" }

\* C10 as stated: the recursion depth of has_path never exceeds the number of
\* graph nodes, no node is expanded twice along a chain of calls, and
\* find_circular_dependencies returns: a run that has stopped after entering it
\* has left it by its return statement.
C10_Returns ==
    /\ Len(stack) <= Len(GraphAsBuilt)
    /\ \A i \in 1..Len(stack) : \A j \in (i + 1)..Len(stack) :
          stack[j].entered => stack[i].start # stack[j].start
    /\ (Stopped /\ CyclesStarted) => pc = "done"

====
